---- MODULE Spec2Model ----
(***************************************************************************)
(* Model of the warp chat relay of src/src/main.rs: the id counter, the    *)
(* shared history buffer and user registry, and per connection the session *)
(* task (user_connected / user_message / user_disconnected) and the        *)
(* forwarding task spawned for its outbound channel.                       *)
(*                                                                         *)
(* One action is one stretch of a task between two suspension points       *)
(* (.await on a transport read or write, on a lock, on the channel).       *)
(* A lock that is taken and dropped with no suspension in between is       *)
(* taken and dropped inside one action; only the history read guard of the *)
(* replay (main.rs:115-134) lives across suspension points, so it is the   *)
(* only lock with state of its own (historyReaders).                       *)
(***************************************************************************)
EXTENDS Integers, Sequences, FiniteSets, TLC

(* ---------------------------------------------------------------- bounds *)
\* connections opened in one run
NConns == 3
\* Spec: reads that yield a frame or an error on the one talkative connection
\* (the naming read included); the other connections have the naming read only
MaxFrames == 2
\* SpecPair: the same for each of the two connections of the run
PairFrames == 2
\* FairSpec: the same for the talkative one of the two connections of the run
FairFrames == 2
\* SpecHist: messages the talkative connection sends beyond the capacity of the buffer
HistMore == 2
\* StallSpec: text frames the talkative connection sends after its naming frame
StallTexts == 2

(* ------------------------------------------------------ program constants *)
\* main.rs:187  history_write.len() >= 20
HistCap == 20
\* main.rs:15   AtomicUsize::new(1)
FirstId == 1

Conns == 1..NConns

\* mutant: the counter is read and left as it is
fetch_add_lost(v) == v

\* main.rs:57  NEXT_USER_ID.fetch_add(1, ..): the value the counter holds afterwards
\* (the value before is the one returned)
fetch_add(v) == v + 1

\* main.rs:100-103  the placeholder name
Anonymous == "Anonymous"
\* the names a client may type as its first frame ("" is the empty text)
NameTexts == {"a", ""}

\* Option<String> of main.rs:82: None is <<>>, Some(s) is <<s>>
None == <<>>
Some(s) == <<s>>

VARIABLES
  NEXT_USER_ID,   \* main.rs:15    the global id counter
  history,        \* main.rs:27    Vec<String> behind the history RwLock
  historyReaders, \* main.rs:115   sessions holding a read guard of history
  users,          \* main.rs:30    HashMap<String, UnboundedSender>: key -> connection whose tx it is
  pc,             \* position of each session task
  my_id,          \* main.rs:57    id of each session
  user_name,      \* main.rs:82    Option<String> read while naming
  data,           \* main.rs:100   the display name, the registry key
  new_msg,        \* main.rs:184   the rendered message being dispatched
  idx,            \* main.rs:123   position of the replay loop in history
  nread,          \* reads of the transport that yielded Some(_) so far
  budget,         \* reads of each transport that yield Some(_) at most in this run
  binary,         \* the clients of this run also send frames that are no text
  arrive,         \* messages dispatched before each client opens its connection, at least
  queue,          \* main.rs:138   messages sitting in each unbounded channel
  fwd,            \* main.rs:141   position of each forwarding task
  cur,            \* main.rs:142   the message the forwarding task took
  wire,           \* frames handed to each transport's send half, in order
  wfail,          \* the first write of a forwarding task that returned Err: whose task, and
                  \* which frame of its transport (history variable)
  got,            \* what the last read of the relay loop yielded (history variable)
  log,            \* every append to history, in order: who, which read, which text, what
                  \* (history variable)
  enq,            \* every message put on each channel, in order: whose, and which read of
                  \* its connection it came from (history variable)
  snap,           \* the buffer as it was when the session came to the replay block (history variable)
  calls           \* per session: registry inserts and removes performed (history variable)

vars == << NEXT_USER_ID, history, historyReaders, users, pc, my_id, user_name, data,
           new_msg, idx, nread, budget, binary, arrive, queue, fwd, cur, wire, wfail,
           got, log, enq, snap, calls >>

\* the inputs of a run: fixed by Init
env == << budget, binary, arrive >>

(* ------------------------------------------------------- pure operations *)
\* warp::ws::Message: a text frame with its text, or a frame that is no text
TextFrame(t) == << "text", t >>
BinaryFrame == << "binary", "" >>

\* what a read yields besides a frame
ReadErr == << "err", "" >>
ReadEnd == << "end", "" >>

\* mutant: any frame is taken for text
to_str_lossy(frame) == Some(frame[2])

\* main.rs:84, 178  Message::to_str: Ok(text) for a text frame only
to_str(frame) == IF frame[1] = "text" THEN Some(frame[2]) ELSE None

\* main.rs:108  format!("Welcome to the chat, {}!", ...)
Welcome(name) == << "Welcome to the chat, ", (IF name = "" THEN Anonymous ELSE name), "!" >>

\* main.rs:117  "History:\n"
HistoryHeader == << "History:\n" >>

\* the text of the k-th frame of a client: every frame of a client is a different text
Text(k) == ToString(k)

\* main.rs:184  format!("<User#{}>: {}", my_id, msg)
Render(key, text) == << "<User#", key, ">: ", text >>

\* mutant: the message is rendered with the numeric id of the connection
RenderedWithId(c, text) == Render(ToString(my_id[c]), text)

\* main.rs:168, 184  user_message is called with data as its my_id
Rendered(c, text) == Render(data[c], text)

\* mutant: the message is pushed twice
PushTwice(h, m) == IF Len(h) >= HistCap THEN Append(Append(Tail(h), m), m) ELSE Append(Append(h, m), m)

\* mutant: the length test is > where the code has >=
PushOffByOne(h, m) == IF Len(h) > HistCap THEN Append(Tail(h), m) ELSE Append(h, m)

\* main.rs:186-192  the body of the history write block
Push(h, m) == IF Len(h) >= HistCap THEN Append(Tail(h), m) ELSE Append(h, m)

\* mutant: an entry that is there is kept (entry().or_insert)
InsertIfAbsent(u, k, c) == IF k \in DOMAIN u THEN u ELSE [x \in DOMAIN u \cup {k} |-> IF x = k THEN c ELSE u[x]]

\* main.rs:153  HashMap::insert
Insert(u, k, c) == [x \in DOMAIN u \cup {k} |-> IF x = k THEN c ELSE u[x]]

\* mutant: the entry is left in the registry
RemoveNothing(u, k) == u

\* main.rs:210  HashMap::remove
Remove(u, k) == [x \in DOMAIN u \ {k} |-> u[x]]

\* the connections whose sender half is stored in the registry
Held(u) == {u[k] : k \in DOMAIN u}

\* mutant: the forwarding task gives up as soon as its channel is empty
SendersDroppedOrIdle(c) == TRUE

\* mutant: a clone of tx outlives the registry entry
SendersNeverDropped(c) == FALSE

\* main.rs:138, 153  the channel of c has no sender left: tx was moved into the
\* registry and is dropped when its entry is replaced or removed
SendersDropped(c) == c \notin Held(users)

\* main.rs:195-196  the connections the fan-out loop sends to: those of the entries
\* whose key differs from the sender's
Targets(u, key) == {c \in Conns : \E k \in DOMAIN u : k /= key /\ u[k] = c}

\* mutant: the message is put at the front of the channel
SendAllInFront(q, u, key, m) ==
  [c \in Conns |->
     IF (\E k \in DOMAIN u : k /= key /\ u[k] = c) /\ fwd[c] /= "done"
       THEN << m >> \o q[c]
       ELSE q[c]]

\* main.rs:195-203  the fan-out loop: every entry whose key differs from the sender's;
\* tx.send fails, and is ignored, when the receiver is gone
SendAll(q, u, key, m) ==
  [c \in Conns |->
     IF (\E k \in DOMAIN u : k /= key /\ u[k] = c) /\ fwd[c] /= "done"
       THEN Append(q[c], m)
       ELSE q[c]]

\* mutant: the test for the empty name is missing
NameOfKeepsEmpty(opt) == IF opt = None THEN Anonymous ELSE opt[1]

\* main.rs:100-103  the registry key chosen from the naming read
NameOf(opt) == IF opt = None \/ opt[1] = "" THEN Anonymous ELSE opt[1]

\* mutant: the writer does not wait for the readers
WriteGrantedAnyway == TRUE

\* main.rs:186  history.write().await is granted: no read guard is out
\* (tokio's RwLock also queues a reader behind a waiting writer; the model lets the
\* reader in, which only adds behaviours)
WriteGranted == historyReaders = {}

(* ------------------------------------------------------------- transport *)
\* user_ws_rx.next() can yield Some(_): the stream has not ended
CanRead(c) == nread[c] < budget[c]

\* user_ws_rx.next() yields Some(_)
ReadSome(c) == CanRead(c) /\ nread' = [nread EXCEPT ![c] = @ + 1]

\* user_ws_rx.next() yields None: the stream has ended, and stays ended
ReadNone(c) == nread' = [nread EXCEPT ![c] = budget[c]]

\* the frames a relay read can yield
Frames(c) == {TextFrame(Text(nread[c] + 1))} \cup (IF binary THEN {BinaryFrame} ELSE {})

\* the frames the naming read can yield
NameFrames == {TextFrame(n) : n \in NameTexts} \cup (IF binary THEN {BinaryFrame} ELSE {})

\* SinkExt::send on the write half: the frame is handed over, the result is Ok or Err
\* and is only logged (main.rs:110, 120, 128, 145)
Write(c, frame, ok) ==
  /\ wire' = [wire EXCEPT ![c] = Append(@, frame)]
  /\ wfail' = IF ok \/ wfail /= <<>> \/ fwd[c] /= "send" THEN wfail ELSE << c, Len(wire[c]) + 1 >>

(* ------------------------------------------------------------------ Init *)
InitShared ==
  /\ NEXT_USER_ID = FirstId
  /\ history = <<>>
  /\ historyReaders = {}
  /\ users = <<>>
  /\ pc = [c \in Conns |-> "start"]
  /\ my_id = [c \in Conns |-> 0]
  /\ user_name = [c \in Conns |-> None]
  /\ data = [c \in Conns |-> ""]
  /\ new_msg = [c \in Conns |-> <<>>]
  /\ idx = [c \in Conns |-> 0]
  /\ nread = [c \in Conns |-> 0]
  /\ queue = [c \in Conns |-> <<>>]
  /\ fwd = [c \in Conns |-> "none"]
  /\ cur = [c \in Conns |-> <<>>]
  /\ wire = [c \in Conns |-> <<>>]
  /\ wfail = <<>>
  /\ got = [c \in Conns |-> <<>>]
  /\ log = <<>>
  /\ enq = [c \in Conns |-> <<>>]
  /\ snap = [c \in Conns |-> <<>>]
  /\ calls = [c \in Conns |-> [ins |-> 0, rem |-> 0]]

\* three connections, any one of them talkative
Init ==
  /\ InitShared
  /\ \E t \in Conns : budget = [c \in Conns |-> IF c = t THEN MaxFrames ELSE 1]
  /\ binary = TRUE
  /\ arrive = [c \in Conns |-> 0]

\* two connections, both talkative
InitPair ==
  /\ InitShared
  /\ budget = [c \in Conns |-> IF c <= 2 THEN PairFrames ELSE 0]
  /\ binary = TRUE
  /\ arrive = [c \in Conns |-> 0]

\* two connections, either one of them talkative
InitFair ==
  /\ InitShared
  /\ \E t \in 1..2 : budget = [c \in Conns |-> IF c = t THEN FairFrames ELSE IF c <= 2 THEN 1 ELSE 0]
  /\ binary = TRUE
  /\ arrive = [c \in Conns |-> 0]

\* one connection that sends more text messages than the buffer holds, and one that
\* joins when the buffer is one message short of full
InitHist ==
  /\ InitShared
  /\ budget = [c \in Conns |-> IF c = 1 THEN 1 + HistCap + HistMore ELSE IF c = 2 THEN 1 ELSE 0]
  /\ binary = FALSE
  /\ arrive = [c \in Conns |-> IF c = 1 THEN 0 ELSE HistCap - 1]

\* one connection that sends text frames, and one that joins and sends nothing
InitStall ==
  /\ InitShared
  /\ budget = [c \in Conns |-> IF c = 1 THEN 1 + StallTexts ELSE IF c = 2 THEN 1 ELSE 0]
  /\ binary = TRUE
  /\ arrive = [c \in Conns |-> 0]

(* --------------------------------------------------------- session task *)
\* main.rs:54-62  the upgrade succeeded: take an id.  Connections are numbered in
\* the order in which they take their id (c is the c-th call of user_connected);
\* a client with nothing to send in this run opens no connection, and a client
\* opens its connection when it arrives
Connect(c) ==
  /\ pc[c] = "start"
  /\ budget[c] > 0
  /\ Len(log) >= arrive[c]
  /\ \A d \in Conns : d < c => pc[d] /= "start"
  /\ my_id' = [my_id EXCEPT ![c] = NEXT_USER_ID]
  /\ NEXT_USER_ID' = fetch_add(NEXT_USER_ID)
  /\ pc' = [pc EXCEPT ![c] = "naming"]
  /\ UNCHANGED << history, historyReaders, users, user_name, data, new_msg, idx, nread,
                  env, queue, fwd, cur, wire, wfail, got, log, enq, snap, calls >>

\* main.rs:82-103  the one naming read has yielded r (None when no text was read);
\* without a name the welcome and the replay are skipped (main.rs:106)
NamingResult(c, r) ==
  /\ user_name' = [user_name EXCEPT ![c] = r]
  /\ data' = [data EXCEPT ![c] = NameOf(r)]
  /\ pc' = [pc EXCEPT ![c] = IF r = None THEN "register" ELSE "welcome"]
  /\ snap' = [snap EXCEPT ![c] = IF r = None THEN history ELSE @]
  /\ UNCHANGED << NEXT_USER_ID, history, historyReaders, users, my_id, new_msg, idx,
                  env, queue, fwd, cur, wire, wfail, got, log, enq, calls >>

NamingRead(c) ==
  /\ pc[c] = "naming"
  /\ \/ \E f \in NameFrames : ReadSome(c) /\ NamingResult(c, to_str(f))  \* Some(Ok(data))
     \/ ReadSome(c) /\ NamingResult(c, None)                             \* Some(Err(e))
     \/ ReadNone(c) /\ NamingResult(c, None)                             \* None

\* main.rs:106-112  a name was received: send the welcome
WelcomeSend(c) ==
  /\ pc[c] = "welcome"
  /\ \E ok \in BOOLEAN : Write(c, Welcome(user_name[c][1]), ok)
  /\ pc' = [pc EXCEPT ![c] = "history"]
  /\ UNCHANGED << NEXT_USER_ID, history, historyReaders, users, my_id, user_name, data,
                  new_msg, idx, nread, env, queue, fwd, cur, got, log, enq, snap, calls >>

\* main.rs:115-116  history.read().await, then the emptiness test; with an empty
\* buffer the guard is dropped at the end of the block (main.rs:134) at once
HistoryRead(c) ==
  /\ pc[c] = "history"
  /\ snap' = [snap EXCEPT ![c] = history]
  /\ IF history = <<>>
       THEN /\ pc' = [pc EXCEPT ![c] = "register"]
            /\ UNCHANGED historyReaders
       ELSE /\ pc' = [pc EXCEPT ![c] = "header"]
            /\ historyReaders' = historyReaders \cup {c}
  /\ UNCHANGED << NEXT_USER_ID, history, users, my_id, user_name, data, new_msg, idx,
                  nread, env, queue, fwd, cur, wire, wfail, got, log, enq, calls >>

\* main.rs:117-122  the header frame, written under the read guard
HeaderSend(c) ==
  /\ pc[c] = "header"
  /\ \E ok \in BOOLEAN : Write(c, HistoryHeader, ok)
  /\ idx' = [idx EXCEPT ![c] = 1]
  /\ pc' = [pc EXCEPT ![c] = "item"]
  /\ UNCHANGED << NEXT_USER_ID, history, historyReaders, users, my_id, user_name, data,
                  new_msg, nread, env, queue, fwd, cur, got, log, enq, snap, calls >>

\* main.rs:123-134  one frame per buffered item, written under the read guard;
\* the guard is dropped when the loop is over
ItemSend(c) ==
  /\ pc[c] = "item"
  /\ \E ok \in BOOLEAN : Write(c, history[idx[c]], ok)
  /\ IF idx[c] < Len(history)
       THEN /\ idx' = [idx EXCEPT ![c] = @ + 1]
            /\ UNCHANGED << pc, historyReaders >>
       ELSE /\ idx' = [idx EXCEPT ![c] = 0]
            /\ pc' = [pc EXCEPT ![c] = "register"]
            /\ historyReaders' = historyReaders \ {c}
  /\ UNCHANGED << NEXT_USER_ID, history, users, my_id, user_name, data, new_msg,
                  nread, env, queue, fwd, cur, got, log, enq, snap, calls >>

\* main.rs:138-153  the channel is made, the forwarding task spawned, and tx stored
\* under the display name (the sender half it replaces is dropped)
Register(c) ==
  /\ pc[c] = "register"
  /\ fwd' = [fwd EXCEPT ![c] = "next"]
  /\ users' = Insert(users, data[c], c)
  /\ calls' = [calls EXCEPT ![c].ins = @ + 1]
  /\ pc' = [pc EXCEPT ![c] = "relay"]
  /\ UNCHANGED << NEXT_USER_ID, history, historyReaders, my_id, user_name, data, new_msg,
                  idx, nread, env, queue, cur, wire, wfail, got, log, enq, snap >>

\* main.rs:176-184  user_message up to its first suspension point: a frame that is
\* no text is skipped, a text is rendered
user_message(c, frame) ==
  /\ got' = [got EXCEPT ![c] = frame]
  /\ IF to_str(frame) = None
       THEN UNCHANGED << new_msg, pc >>
       ELSE /\ new_msg' = [new_msg EXCEPT ![c] = Rendered(c, to_str(frame)[1])]
            /\ pc' = [pc EXCEPT ![c] = "append"]

\* main.rs:160-169  one read of the relay loop
RelayRead(c) ==
  /\ pc[c] = "relay"
  /\ \/ \E f \in Frames(c) : ReadSome(c) /\ user_message(c, f)   \* Some(Ok(msg))
     \/ /\ ReadSome(c)                                           \* Some(Err(e)): break
        /\ got' = [got EXCEPT ![c] = ReadErr]
        /\ pc' = [pc EXCEPT ![c] = "disconnect"]
        /\ UNCHANGED new_msg
     \/ /\ ReadNone(c)                                           \* None: the loop ends
        /\ got' = [got EXCEPT ![c] = ReadEnd]
        /\ pc' = [pc EXCEPT ![c] = "disconnect"]
        /\ UNCHANGED new_msg
  /\ UNCHANGED << NEXT_USER_ID, history, historyReaders, users, my_id, user_name, data,
                  idx, env, queue, fwd, cur, wire, wfail, log, enq, snap, calls >>

\* mutant: the append and the fan-out are one critical section
HistoryAppendAndFanOut(c) ==
  /\ pc[c] = "append"
  /\ WriteGranted
  /\ history' = Push(history, new_msg[c])
  /\ log' = Append(log, [by |-> c, seq |-> nread[c], text |-> got[c][2], msg |-> new_msg[c]])
  /\ queue' = SendAll(queue, users, data[c], new_msg[c])
  /\ enq' = [d \in Conns |->
               IF d \in Targets(users, data[c]) /\ fwd[d] /= "done"
                 THEN Append(enq[d], << c, nread[c] >>)
                 ELSE enq[d]]
  /\ new_msg' = [new_msg EXCEPT ![c] = <<>>]
  /\ pc' = [pc EXCEPT ![c] = "relay"]
  /\ UNCHANGED << NEXT_USER_ID, historyReaders, users, my_id, user_name, data,
                  idx, nread, env, fwd, cur, wire, wfail, got, snap, calls >>

\* main.rs:185-193  the history write block, entered when the write guard is granted
HistoryAppend(c) ==
  /\ pc[c] = "append"
  /\ WriteGranted
  /\ history' = Push(history, new_msg[c])
  /\ log' = Append(log, [by |-> c, seq |-> nread[c], text |-> got[c][2], msg |-> new_msg[c]])
  /\ pc' = [pc EXCEPT ![c] = "fanout"]
  /\ UNCHANGED << NEXT_USER_ID, historyReaders, users, my_id, user_name, data, new_msg,
                  idx, nread, env, queue, fwd, cur, wire, wfail, got, enq, snap, calls >>

\* main.rs:195-203  the fan-out under the registry read guard (no suspension inside)
FanOut(c) ==
  /\ pc[c] = "fanout"
  /\ queue' = SendAll(queue, users, data[c], new_msg[c])
  /\ enq' = [d \in Conns |->
               IF d \in Targets(users, data[c]) /\ fwd[d] /= "done"
                 THEN Append(enq[d], << c, nread[c] >>)
                 ELSE enq[d]]
  /\ new_msg' = [new_msg EXCEPT ![c] = <<>>]
  /\ pc' = [pc EXCEPT ![c] = "relay"]
  /\ UNCHANGED << NEXT_USER_ID, history, historyReaders, users, my_id, user_name, data,
                  idx, nread, env, fwd, cur, wire, wfail, got, log, snap, calls >>

\* mutant: teardown removes the entry only when it holds the session's own handle
user_disconnected_own(c) ==
  /\ pc[c] = "disconnect"
  /\ users' = IF data[c] \in DOMAIN users /\ users[data[c]] = c THEN Remove(users, data[c]) ELSE users
  /\ calls' = [calls EXCEPT ![c].rem = @ + 1]
  /\ pc' = [pc EXCEPT ![c] = "done"]
  /\ UNCHANGED << NEXT_USER_ID, history, historyReaders, my_id, user_name, data, new_msg,
                  idx, nread, env, queue, fwd, cur, wire, wfail, got, log, enq, snap >>

\* main.rs:173, 206-211  teardown: remove whatever is stored under the display name
user_disconnected(c) ==
  /\ pc[c] = "disconnect"
  /\ users' = Remove(users, data[c])
  /\ calls' = [calls EXCEPT ![c].rem = @ + 1]
  /\ pc' = [pc EXCEPT ![c] = "done"]
  /\ UNCHANGED << NEXT_USER_ID, history, historyReaders, my_id, user_name, data, new_msg,
                  idx, nread, env, queue, fwd, cur, wire, wfail, got, log, enq, snap >>

(* ------------------------------------------------------ forwarding task *)
\* mutant: the loop of the forwarding task breaks on the Err of a write
AfterWriteBreaks(ok) == IF ok THEN "next" ELSE "done"

\* main.rs:143-148  where the loop of the forwarding task goes after a write: the
\* Err of a write is logged by unwrap_or_else and the loop takes the next message
AfterWrite(ok) == "next"

\* main.rs:142  rx.next() yields the next queued message
ForwardNext(c) ==
  /\ fwd[c] = "next"
  /\ queue[c] /= <<>>
  /\ cur' = [cur EXCEPT ![c] = Head(queue[c])]
  /\ queue' = [queue EXCEPT ![c] = Tail(@)]
  /\ fwd' = [fwd EXCEPT ![c] = "send"]
  /\ UNCHANGED << NEXT_USER_ID, history, historyReaders, users, pc, my_id, user_name, data,
                  new_msg, idx, nread, env, wire, wfail, got, log, enq, snap, calls >>

\* main.rs:143-148  the write of the taken message; an Err is logged and the loop goes on
ForwardSend(c) ==
  /\ fwd[c] = "send"
  /\ \E ok \in BOOLEAN : Write(c, cur[c], ok) /\ fwd' = [fwd EXCEPT ![c] = AfterWrite(ok)]
  /\ cur' = [cur EXCEPT ![c] = <<>>]
  /\ UNCHANGED << NEXT_USER_ID, history, historyReaders, users, pc, my_id, user_name, data,
                  new_msg, idx, nread, env, queue, got, log, enq, snap, calls >>

\* main.rs:142, 149-150  rx.next() yields None: the queue is empty and no sender is
\* left; the task ends and drops rx
ForwardEnd(c) ==
  /\ fwd[c] = "next"
  /\ queue[c] = <<>>
  /\ SendersDropped(c)
  /\ fwd' = [fwd EXCEPT ![c] = "done"]
  /\ UNCHANGED << NEXT_USER_ID, history, historyReaders, users, pc, my_id, user_name, data,
                  new_msg, idx, nread, env, queue, cur, wire, wfail, got, log, enq, snap, calls >>

(* ------------------------------------------------------------------ Next *)
Session(c) ==
  \/ Connect(c)
  \/ NamingRead(c)
  \/ WelcomeSend(c)
  \/ HistoryRead(c)
  \/ HeaderSend(c)
  \/ ItemSend(c)
  \/ Register(c)
  \/ RelayRead(c)
  \/ HistoryAppend(c)
  \/ FanOut(c)
  \/ user_disconnected(c)

Forwarder(c) ==
  \/ ForwardNext(c)
  \/ ForwardSend(c)
  \/ ForwardEnd(c)

Next == \E c \in Conns : Session(c) \/ Forwarder(c)

Spec == Init /\ [][Next]_vars

SpecPair == InitPair /\ [][Next]_vars

SpecHist == InitHist /\ [][Next]_vars

\* main.rs:141  a spawned forwarding task is scheduled whenever it can run, and a
\* transport write eventually returns
FairSpec == InitFair /\ [][Next]_vars /\ \A c \in Conns : WF_vars(Forwarder(c))

\* main.rs:185-203  a session that is in its dispatch is scheduled, and is granted a
\* lock that stays free; a transport (a read, a write of a session or of a forwarding
\* task) may stall for ever
StallSpec == InitStall /\ [][Next]_vars /\ \A c \in Conns : WF_vars(HistoryAppend(c) \/ FanOut(c))

(* ---------------------------------------------------------------- claims *)
Range(q) == {q[i] : i \in 1..Len(q)}

\* the last n elements of a sequence (all of it when it is shorter)
LastN(q, n) == IF Len(q) <= n THEN q ELSE SubSeq(q, Len(q) - n + 1, Len(q))

\* the messages appended to history so far, in order
Appended == [i \in 1..Len(log) |-> log[i].msg]

\* the session has registered (it is in, or past, the relay loop)
Registered(c) == pc[c] \in {"relay", "append", "fanout", "disconnect", "done"}

\* the session is in the relay loop or on its way to teardown: not yet disconnected
Relaying(c) == pc[c] \in {"relay", "append", "fanout", "disconnect"}

\* a message has been put on the queue of d in this step
Enqueued(d) == Len(queue'[d]) > Len(queue[d])

\* C1: the history buffer never holds more than 20 entries, and it always is the
\* last 20 appended messages in the order of their appends (so after more than 20
\* appends the oldest ones are the ones evicted).
C1_HistoryIsLast20 ==
  /\ Len(history) <= HistCap
  /\ history = LastN(Appended, HistCap)

\* C1 witness: more than 20 messages were appended and the oldest is gone
C1_Witness ==
  /\ Len(log) > HistCap
  /\ Len(history) = HistCap
  /\ history[1] = log[Len(log) - HistCap + 1].msg
  /\ history[1] /= log[1].msg

\* C2 (as claimed): a fan-out by c puts nothing on c's own queue and puts the
\* message on the queue of every other connection whose handle is in the registry.
C2_FanOutReachesAllOthers ==
  [][\A c \in Conns :
       (pc[c] = "fanout" /\ pc'[c] = "relay") =>
          /\ queue'[c] = queue[c]
          /\ \A d \in Held(users) \ {c} : queue'[d] = Append(queue[d], new_msg[c])]_vars

\* C3 (as claimed): every message appended to history is the rendering of the
\* sender's text with the sender's numeric id.
C3_RenderedWithConnectionId ==
  \A i \in 1..Len(log) : log[i].msg = Render(ToString(my_id[log[i].by]), log[i].text)

\* C3 (amended): every message appended to history is the rendering of the sender's
\* text with the sender's display name (the registry key), and every message that is
\* queued or taken for forwarding is one of these.
C3_RenderedWithDisplayName ==
  /\ \A i \in 1..Len(log) : log[i].msg = Render(data[log[i].by], log[i].text)
  /\ \A d \in Conns : \A m \in Range(queue[d]) \cup (IF cur[d] = <<>> THEN {} ELSE {cur[d]}) :
        \E i \in 1..Len(log) : m = Render(data[log[i].by], log[i].text)

\* C3 witness: a message of a named connection is in history and on another's queue
C3_Witness ==
  \E c, d \in Conns :
    /\ c /= d
    /\ data[c] = "a"
    /\ history = << Render("a", Text(2)) >>
    /\ log[1].by = c
    /\ queue[d] = << Render("a", Text(2)) >>


\* the session is past the replay block of user_connected (main.rs:105-134)
PastReplay(c) == pc[c] = "register" \/ Registered(c)

\* the welcome frame of c, with the placeholder when no name was read
WelcomeOf(c) == Welcome(IF user_name[c] = None THEN "" ELSE user_name[c][1])

\* welcome, header, then the buffer as it was at the replay, one frame per entry
Replay(c) == << WelcomeOf(c), HistoryHeader >> \o snap[c]

\* the first n frames handed to the transport of c
Written(c, n) == SubSeq(wire[c], 1, n)

\* C4 (as claimed): every connection that joins while the buffer is non-empty has
\* written welcome, header and the buffer's contents, in this order, before
\* anything else.
C4_JoinerGetsReplay ==
  \A c \in Conns :
    (PastReplay(c) /\ snap[c] /= <<>>) =>
       /\ Len(wire[c]) >= Len(Replay(c))
       /\ Written(c, Len(Replay(c))) = Replay(c)

\* C4 (amended): a connection whose naming read yielded a text frame and that joins
\* while the buffer is non-empty has written welcome, header and the buffer's
\* contents (at most 20 entries), in this order and before any frame of its
\* forwarding task: these are all it has written when it comes to register.
C4_NamedJoinerGetsReplay ==
  \A c \in Conns :
    (PastReplay(c) /\ user_name[c] /= None /\ snap[c] /= <<>>) =>
       /\ Len(snap[c]) <= HistCap
       /\ Len(wire[c]) >= Len(Replay(c))
       /\ Written(c, Len(Replay(c))) = Replay(c)
       /\ pc[c] = "register" => wire[c] = Replay(c)

\* C4 witness: a named joiner has replayed a full buffer and then forwarded a live frame
C4_Witness ==
  \E c \in Conns :
    /\ pc[c] = "relay"
    /\ user_name[c] /= None
    /\ Len(snap[c]) = HistCap
    /\ Written(c, 2 + HistCap) = Replay(c)
    /\ Len(wire[c]) > 2 + HistCap

\* C5 (as claimed): the registry holds the handle of a connection exactly while that
\* connection is registered and not yet disconnected, and every session inserts and
\* removes at most once.
C5_RegistryIffRelaying ==
  \A c \in Conns :
    /\ c \in Held(users) <=> Relaying(c)
    /\ calls[c].ins <= 1
    /\ calls[c].rem <= 1

\* the sender half of c was stored in the registry and is there no more
Dropped(c) == calls[c].ins = 1 /\ SendersDropped(c)

\* C6: a registration under a key that is present makes the entry map to the new
\* handle and drops the prior one, and a dropped handle stays dropped and is never
\* enqueued on again.
C6_ReplacedHandleGetsNothing ==
  [][/\ \A c \in Conns :
          (pc[c] = "register" /\ pc'[c] = "relay" /\ data[c] \in DOMAIN users) =>
             /\ users'[data[c]] = c
             /\ users[data[c]] \notin Held(users')
     /\ \A d \in Conns : Dropped(d) => (Dropped(d)' /\ ~Enqueued(d))]_vars

\* C6 witness: d was replaced by c under the same key while still relaying, and a
\* message of a third connection went to c and not to d
C6_Witness ==
  \E c, d, e \in Conns :
    /\ c /= d /\ data[c] = data[d] /\ data[e] /= data[c]
    /\ pc[d] = "relay" /\ calls[d].ins = 1
    /\ data[c] \in DOMAIN users /\ users[data[c]] = c
    /\ Len(log) = 1 /\ log[1].by = e /\ pc[e] = "relay"
    /\ queue[c] = << log[1].msg >>
    /\ queue[d] = <<>> /\ wire[d] = <<>> /\ cur[d] = <<>>

\* C7: a session has performed its registry removal exactly once when it is done and
\* not before (whichever way its relay loop ended), and once it is done nothing is
\* enqueued on its queue.
C7_RemovedOnceThenNoDelivery ==
  /\ [](\A c \in Conns : calls[c].rem = (IF pc[c] = "done" THEN 1 ELSE 0))
  /\ [][\A c \in Conns : pc[c] = "done" => ~Enqueued(c)]_vars

\* C7 witness: c has been torn down after a read of its relay loop failed or ended,
\* and a dispatch of another connection is about to fan out
C7_Witness ==
  \E c, d \in Conns :
    /\ pc[c] = "done" /\ calls[c].rem = 1
    /\ data[d] /= data[c]
    /\ pc[d] = "fanout"
    /\ queue[c] = <<>>

\* C8: once a session is torn down, its forwarding task eventually writes out what
\* is queued and ends (given that a transport write eventually returns).
C8_ForwarderEnds ==
  \A c \in Conns : (pc[c] = "done") ~> (fwd[c] = "done" /\ queue[c] = <<>>)

\* C8 witness: a session is torn down while messages are still on its queue
C8_Witness ==
  \E c \in Conns : pc[c] = "done" /\ queue[c] /= <<>> /\ fwd[c] /= "done"

\* C9: a relay read that yields a frame that is no text leaves history, registry and
\* every queue as they are, and the session stays in its relay loop.
C9_NonTextIsDropped ==
  [][\A c \in Conns :
       (pc[c] = "relay" /\ nread'[c] /= nread[c] /\ got'[c] = BinaryFrame) =>
          /\ pc'[c] = "relay"
          /\ UNCHANGED << history, log, enq, users, queue, new_msg >>]_vars

\* C9 witness: a registered session read a frame that is no text while another
\* session is registered, and nothing was recorded or queued
C9_Witness ==
  \E c, d \in Conns :
    /\ c /= d /\ data[c] /= data[d]
    /\ pc[c] = "relay" /\ got[c] = BinaryFrame
    /\ pc[d] = "relay" /\ d \in Held(users)
    /\ history = <<>> /\ queue[d] = <<>> /\ cur[d] = <<>> /\ wire[d] = <<>>

\* the welcome and the replay are what c wrote first
WroteReplay(c) ==
  /\ Len(wire[c]) >= 1
  /\ wire[c][1] = WelcomeOf(c)
  /\ snap[c] /= <<>> => (Len(wire[c]) >= Len(Replay(c)) /\ Written(c, Len(Replay(c))) = Replay(c))

\* the key the claim gives a session: the name read, the placeholder for none or ""
ClaimedKey(c) ==
  IF user_name[c] = None THEN Anonymous
  ELSE IF user_name[c][1] = "" THEN Anonymous ELSE user_name[c][1]

\* the session has registered under the key the claim gives it
RegisteredUnderName(c) == calls[c].ins = 1 /\ data[c] = ClaimedKey(c)

\* C10 (as claimed): whatever the naming read yielded, a registered session has sent
\* the welcome, replayed a non-empty buffer, and registered under its name.
C10_AlwaysWelcomed ==
  \A c \in Conns : Registered(c) => (WroteReplay(c) /\ RegisteredUnderName(c))

\* C10 (amended): whatever the naming read yielded, the session comes to register
\* (nothing holds the registration up) and registers under the chosen name, or under
\* "Anonymous" when the name is empty or unreadable; it has sent the welcome and
\* replayed a non-empty buffer when the naming read yielded a text frame, and has
\* sent nothing at all before registering when it did not.
C10_NamingNeverFatal ==
  \A c \in Conns :
    /\ pc[c] \notin {"start", "naming"} => data[c] = ClaimedKey(c)
    /\ pc[c] = "register" => ENABLED Register(c)
    /\ Registered(c) => RegisteredUnderName(c)
    /\ (PastReplay(c) /\ user_name[c] /= None) => WroteReplay(c)
    /\ (pc[c] = "register" /\ user_name[c] = None) => wire[c] = <<>>
    /\ (PastReplay(c) /\ user_name[c] = None) =>
          (WelcomeOf(c) \notin Range(wire[c]) /\ HistoryHeader \notin Range(wire[c]))

\* C10 witness: while history is non-empty one session has registered as Anonymous
\* after a naming read without text, with nothing written, and one has registered
\* under the name it typed, with welcome and replay written
C10_Witness ==
  \E c, d \in Conns :
    /\ user_name[c] = None /\ pc[c] = "relay" /\ wire[c] = <<>>
    /\ Anonymous \in DOMAIN users /\ users[Anonymous] = c
    /\ user_name[d] = Some("a") /\ pc[d] = "relay"
    /\ "a" \in DOMAIN users /\ users["a"] = d
    /\ snap[d] /= <<>> /\ wire[d] = Replay(d)

\* the frames the session of d wrote itself before it registered: the welcome, and
\* header and items when the buffer was not empty
SessionWrites(d) ==
  IF user_name[d] = None THEN 0
  ELSE 1 + (IF snap[d] = <<>> THEN 0 ELSE 1 + Len(snap[d]))

\* what came through the channel of d so far, in the order in which it came out:
\* written by the forwarding task, taken by it, still queued
Pipe(d) ==
  SubSeq(wire[d], SessionWrites(d) + 1, Len(wire[d]))
    \o (IF cur[d] = <<>> THEN <<>> ELSE << cur[d] >>)
    \o queue[d]

\* the message made of the frame that connection e[1] got with its read number e[2]
MsgOf(e) == Render(data[e[1]], Text(e[2]))

\* C11: the text frames of one connection are appended to history in the order in
\* which they were read, they are put on every channel in that order, and a channel
\* hands them on in the order in which they were put on it.
C11_ArrivalOrder ==
  /\ \A i, j \in 1..Len(log) :
        (i < j /\ log[i].by = log[j].by) => log[i].seq < log[j].seq
  /\ \A d \in Conns : \A i, j \in 1..Len(enq[d]) :
        (i < j /\ enq[d][i][1] = enq[d][j][1]) => enq[d][i][2] < enq[d][j][2]
  /\ \A d \in Conns :
        Registered(d) => Pipe(d) = [i \in 1..Len(enq[d]) |-> MsgOf(enq[d][i])]

\* C11 witness: three messages of one connection went to the channel of another, of
\* which one is written, one taken and one queued
C11_Witness ==
  \E c, d \in Conns :
    /\ c /= d
    /\ Len(enq[d]) = 3
    /\ \A i \in 1..3 : enq[d][i][1] = c
    /\ Len(wire[d]) = SessionWrites(d) + 1
    /\ cur[d] /= <<>>
    /\ Len(queue[d]) = 1

\* the connections that have taken an id
Issued == {c \in Conns : pc[c] /= "start"}

\* C12: the ids issued start at 1, are pairwise distinct and below the counter, the
\* counter has advanced by one per id issued, an id once issued stays, every new id
\* is above all ids issued before it (also those of disconnected sessions), and the
\* counter never goes back.
C12_IdsDistinctIncreasing ==
  /\ [](/\ \A c \in Issued : FirstId <= my_id[c] /\ my_id[c] < NEXT_USER_ID
        /\ \A c, d \in Issued : c /= d => my_id[c] /= my_id[d]
        /\ Issued /= {} => \E c \in Issued : my_id[c] = FirstId
        /\ NEXT_USER_ID = FirstId + Cardinality(Issued))
  /\ [][/\ NEXT_USER_ID' >= NEXT_USER_ID
        /\ \A c \in Conns :
             IF c \in Issued
               THEN my_id'[c] = my_id[c]
               ELSE c \in Issued' => \A d \in Issued : my_id'[c] > my_id[d]]_vars

\* C12 witness: two sessions started side by side and took 1 and 2, and a third one
\* has taken 3 after the first has disconnected
C12_Witness ==
  \E c, d, e \in Conns :
    /\ my_id[c] = 1 /\ my_id[d] = 2 /\ my_id[e] = 3
    /\ pc[c] = "done" /\ pc[d] = "naming" /\ pc[e] = "naming"

\* the session is suspended on a read or a write of its transport
AtTransportIO(c) == pc[c] \in {"naming", "welcome", "header", "item", "relay"}

\* C13 (as claimed): a session that is suspended on a transport read or write holds
\* no guard of the history lock (the registry lock is never held over a suspension
\* point: its guards live inside Register, FanOut and user_disconnected).
C13_NoLockAcrossIO ==
  \A c \in Conns : AtTransportIO(c) => c \notin historyReaders

\* C14 (as claimed): a dispatch that has read its text frame gets through the history
\* append and the fan-out, whatever transport stalls.
C14_DispatchNeverBlocked ==
  \A c \in Conns : (pc[c] = "append") ~> (pc[c] = "relay")

\* C15 (as claimed): a forwarding task has ended only when its session is done.
C15_ForwarderEndsAfterSession ==
  \A c \in Conns : fwd[c] = "done" => pc[c] = "done"

\* the appends to history made for the frame that connection c got with its read n
AppendsOf(c, n) == {i \in 1..Len(log) : log[i].by = c /\ log[i].seq = n}

\* C16: a relay read that yields a text frame starts a dispatch; the dispatch is held
\* up by nothing but the history lock, whatever the registry holds; its history step
\* appends the rendered message once (evicting the oldest of 20) and touches no
\* channel, so that at its fan-out there is exactly one append for the frame; there
\* is never more than one append for a frame, nothing else changes the buffer, and
\* every message that was put on a channel had been appended before.
C16_OneAppendPerTextFrame ==
  /\ [](\A c \in Conns :
         /\ pc[c] = "append" =>
               /\ AppendsOf(c, nread[c]) = {}
               /\ WriteGranted => ENABLED HistoryAppend(c)
         /\ pc[c] = "fanout" =>
               \E i \in 1..Len(log) :
                  /\ AppendsOf(c, nread[c]) = {i}
                  /\ log[i].msg = new_msg[c]
                  /\ log[i].text = got[c][2]
         /\ \A n \in 1..nread[c] : Cardinality(AppendsOf(c, n)) <= 1
         /\ \A i \in 1..Len(enq[c]) : AppendsOf(enq[c][i][1], enq[c][i][2]) /= {})
  /\ [][/\ \A c \in Conns :
             /\ (pc[c] = "relay" /\ nread'[c] /= nread[c] /\ got'[c][1] = "text") =>
                   (pc'[c] = "append" /\ new_msg'[c] = Render(data[c], got'[c][2]))
             /\ (pc[c] = "append" /\ pc'[c] /= "append") =>
                   /\ pc'[c] = "fanout"
                   /\ history' = LastN(Append(history, new_msg[c]), HistCap)
                   /\ Len(log') = Len(log) + 1
                   /\ UNCHANGED << queue, enq, users >>
        /\ (history' /= history \/ log' /= log) =>
              \E c \in Conns : pc[c] = "append" /\ pc'[c] = "fanout"]_vars

\* C16 witness: a text frame was read and dispatched while no other connection was
\* registered: it is in the buffer and on no channel
C16_Witness ==
  \E c \in Conns :
    /\ pc[c] = "relay" /\ got[c] = TextFrame(Text(nread[c]))
    /\ DOMAIN users = {data[c]} /\ users[data[c]] = c
    /\ \A d \in Conns \ {c} : ~Registered(d)
    /\ history = << Render(data[c], Text(nread[c])) >>
    /\ Cardinality(AppendsOf(c, nread[c])) = 1
    /\ \A d \in Conns : enq[d] = <<>> /\ queue[d] = <<>>

\* the write of the forwarding task of c in this step returned Err (the first one
\* of the run that did)
ForwardWriteFailed(c) == wfail = <<>> /\ wfail' /= <<>> /\ wfail'[1] = c

\* C17: a write of a forwarding task that returns Err leaves the task in its loop,
\* ready to take the next message, with the frame handed to the transport, and
\* leaves the registry, the channels and every session where they are; a session
\* goes to its teardown only from a read of its relay loop that failed or ended.
C17_WriteFailureIsNotFatal ==
  [][\A c \in Conns :
       /\ ForwardWriteFailed(c) =>
            /\ fwd[c] = "send" /\ fwd'[c] = "next"
            /\ wire'[c] = Append(wire[c], cur[c])
            /\ UNCHANGED << users, pc, queue >>
       /\ (pc[c] /= "disconnect" /\ pc'[c] = "disconnect") =>
            (pc[c] = "relay" /\ got'[c] \in {ReadErr, ReadEnd})]_vars

\* C17 witness: a write of the forwarding task of c has failed, and the task has
\* written the next message after it; c is still registered and relaying
C17_Witness ==
  \E c \in Conns :
    /\ wfail /= <<>> /\ wfail[1] = c
    /\ wfail[2] > SessionWrites(c)
    /\ Len(wire[c]) > wfail[2]
    /\ pc[c] = "relay" /\ c \in Held(users)

\* C18: the forwarding task of every connection whose handle is in the registry is
\* running; a forwarding task ends only when its handle is in the registry no more
\* and its channel is empty; so a fan-out puts the message on the channel of every
\* connection it sends to (no send of it fails), and on no other.
C18_RegistryHandlesAreLive ==
  /\ [](\A c \in Held(users) : fwd[c] \in {"next", "send"})
  /\ [][\A c \in Conns :
          /\ (fwd[c] /= "done" /\ fwd'[c] = "done") =>
                (c \notin Held(users) /\ queue[c] = <<>>)
          /\ (pc[c] = "fanout" /\ pc'[c] = "relay") =>
                \A d \in Conns :
                   queue'[d] = IF d \in Targets(users, data[c])
                                 THEN Append(queue[d], new_msg[c])
                                 ELSE queue[d]]_vars

\* C18 witness: the forwarding task of c has ended after the teardown of c, and a
\* message of c sits on the channel of d, whose handle is in the registry and whose
\* forwarding task is running
C18_Witness ==
  \E c, d \in Conns :
    /\ pc[c] = "done" /\ fwd[c] = "done" /\ c \notin Held(users)
    /\ d \in Held(users) /\ fwd[d] = "next"
    /\ enq[d] /= <<>> /\ enq[d][1][1] = c
    /\ queue[d] /= <<>>

\* the message of the i-th append was in the buffer that d replayed
InReplay(d, i) == user_name[d] /= None /\ log[i].msg \in Range(snap[d])

\* the message of the i-th append was put on the channel of d
ViaQueue(d, i) == << log[i].by, log[i].seq >> \in Range(enq[d])

\* C19: the append and the fan-out of a dispatch are two steps, of which the first
\* touches no channel and the second not the buffer; the replay of a joiner reads
\* the buffer as it is at that step and not the registry, its insertion comes in a
\* later step, and nothing is put on its channel before the insertion.  (That a
\* message can so reach a joiner neither way, or both ways, is the witness.)
C19_JoinIsNotAtomic ==
  /\ [](\A d \in Conns : ~Registered(d) => (enq[d] = <<>> /\ queue[d] = <<>>))
  /\ [][\A c \in Conns :
          /\ (pc[c] = "append" /\ pc'[c] /= "append") =>
                (pc'[c] = "fanout" /\ UNCHANGED << queue, enq, users, snap >>)
          /\ (pc[c] = "fanout" /\ pc'[c] /= "fanout") =>
                UNCHANGED << history, log, users, snap >>
          /\ (pc[c] = "history" /\ pc'[c] /= "history") =>
                (snap'[c] = history /\ ~Registered(c)' /\ UNCHANGED << history, users, queue, enq >>)
          /\ (pc[c] = "register" /\ pc'[c] /= "register") =>
                (users' = Insert(users, data[c], c) /\ UNCHANGED << history, log, snap, queue, enq >>)]_vars

\* C19 witness: connection c has sent one message, which is appended and fanned
\* out; joiner d went through its replay while the buffer was empty and has not
\* inserted its handle yet, so it has the message neither in its replay nor on its
\* channel; joiner e replayed after the append and registered before the fan-out,
\* and has written the message twice
C19_Witness ==
  \E c, d, e \in Conns :
    /\ c /= d /\ c /= e /\ d /= e
    /\ Len(log) = 1 /\ log[1].by = c /\ pc[c] = "relay" /\ got[c] = TextFrame(log[1].text)
    /\ pc[d] = "register" /\ ~InReplay(d, 1) /\ ~ViaQueue(d, 1)
    /\ user_name[d] /= None /\ data[d] /= data[c]
    /\ wire[d] = << WelcomeOf(d) >> /\ queue[d] = <<>> /\ cur[d] = <<>>
    /\ pc[e] = "relay" /\ InReplay(e, 1) /\ ViaQueue(e, 1)
    /\ wire[e] = Replay(e) \o << log[1].msg >>

\* C20: the teardown of c leaves the registry without an entry under the display
\* name of c, whoever's handle was there, and with its other entries as they were;
\* every other session of that name that is not done stays where it is and has no
\* handle in the registry.  A session that is registered without a handle in the
\* registry gets nothing put on its channel, and its forwarding task can end as soon
\* as the channel is empty.
C20_TeardownRemovesByName ==
  /\ [](\A d \in Conns :
         (Registered(d) /\ d \notin Held(users) /\ fwd[d] = "next" /\ queue[d] = <<>>) =>
            ENABLED ForwardEnd(d))
  /\ [][\A c \in Conns :
          /\ (pc[c] = "disconnect" /\ pc'[c] = "done") =>
                /\ data[c] \notin DOMAIN users'
                /\ DOMAIN users' = DOMAIN users \ {data[c]}
                /\ \A k \in DOMAIN users' : users'[k] = users[k]
                /\ \A d \in Conns \ {c} :
                      (data[d] = data[c] /\ Relaying(d)) =>
                         (pc'[d] = pc[d] /\ d \notin Held(users'))
          /\ (Registered(c) /\ c \notin Held(users)) =>
                (enq'[c] = enq[c] /\ ~Enqueued(c) /\ c \notin Held(users'))]_vars

\* C20 witness: c and d are both "Anonymous"; the naming read of c hit the end of
\* its stream and c is torn down; d is in its relay loop with no entry in the
\* registry under its name, nothing ever put on its channel and its forwarding
\* task ended, while a third connection is about to fan out a message
C20_Witness ==
  \E c, d, e \in Conns :
    /\ c /= d /\ data[c] = Anonymous /\ data[d] = Anonymous
    /\ user_name[c] = None /\ nread[c] = budget[c] /\ got[c] = ReadEnd /\ pc[c] = "done"
    /\ pc[d] = "relay" /\ calls[d].ins = 1
    /\ Anonymous \notin DOMAIN users
    /\ enq[d] = <<>> /\ wire[d] = <<>> /\ fwd[d] = "done"
    /\ pc[e] = "fanout" /\ data[e] = "a" /\ users["a"] = e

====
